---- MODULE Spec2Model ----
(***************************************************************************)
(* A model of packup's asset pipeline: generateAssets, watchAndGenAssets    *)
(* and the Asset classes (HtmlAsset, CssAsset, ScssAsset, ScriptAsset,      *)
(* ImageAsset), with the helpers of util.ts they call.                      *)
(*                                                                         *)
(* Strings are sequences of one-character strings, so that startsWith,     *)
(* includes, replace, match and split are computed as JavaScript computes  *)
(* them.  An element is a record [tag, attrs]; attrs is a function whose   *)
(* domain is the set of attributes present on the element.                 *)
(***************************************************************************)
EXTENDS Naturals, Sequences, FiniteSets, TLC

VARIABLES
    mode,          \* "build": the caller uses generateAssets; "serve": watchAndGenAssets
    path,          \* the entrypoint path given by the caller
    callerOpts,    \* the GenerateAssetsOptions given by the caller
    fs,            \* the file system: path -> contents (a document, a data id, or NoFile)
    pc,            \* the position of the control flow
    parsed,        \* the document as DOMParser returned it in this cycle
    doc,           \* HtmlAsset.#doc: the live, shared document tree
    pageInfo,      \* HtmlAsset.pageName, HtmlAsset.base and HtmlAsset.#filename
    assets,        \* const assets = [...htmlAsset.extractReferencedAssets()]
    idx,           \* the generator's position in `for (const a of assets)`
    srcIdx,        \* ImageAsset.createFileObject's position in `for (const src of this.#sources)`
    scss,          \* const scss = await Deno.readFile(...) of the ScssAsset.createFileObject call in progress
    files,         \* the File[] of the createFileObject call in progress / being yielded
    dests,         \* per asset, per source reference: the artifact name computed for it
    lastStep,      \* the last source ImageAsset.createFileObject processed, with src before and after
    out,           \* the Files handed to the consumer in this cycle, in order
    watchPaths,    \* the watch paths generateAssets returned
    prevWatchPaths,\* the watch paths the previous generateAssets call returned
    queried,       \* the `deno info` queries made by the current generateAssets call
    watcher,       \* the Deno.watchFs subscription: NoWatcher or [paths, events]
    timer,         \* the delay of the pending setTimeout, 0 when none is pending
    hookCalls,     \* calls of opts.onBuild in this cycle
    cycles,        \* generateAssets calls so far
    changes        \* file-system modifications so far

vars == <<mode, path, callerOpts, fs, pc, parsed, doc, pageInfo, assets, idx, srcIdx,
          scss, files, dests, lastStep, out, watchPaths, prevWatchPaths, queried, watcher,
          timer, hookCalls, cycles, changes>>

(***************************************************************************)
(* Bounds of the model.                                                    *)
(***************************************************************************)
MaxNodes == 2      \* elements in an entrypoint document of a build
MaxChanges == 2    \* file-system modifications while serving
MaxClock == 2      \* Date.now() takes a value in 1..MaxClock

(***************************************************************************)
(* JavaScript string operations.                                           *)
(***************************************************************************)
\* String.prototype.startsWith
StartsWith(s, p) == Len(s) >= Len(p) /\ SubSeq(s, 1, Len(p)) = p

\* String.prototype.endsWith
EndsWith(s, p) == Len(s) >= Len(p) /\ SubSeq(s, Len(s) - Len(p) + 1, Len(s)) = p

\* The positions at which `sub` occurs in s.
Occurrences(s, sub) ==
    {i \in 1..(Len(s) + 1) : i + Len(sub) - 1 <= Len(s) /\ SubSeq(s, i, i + Len(sub) - 1) = sub}

\* String.prototype.includes
Includes(s, sub) == Occurrences(s, sub) # {}

\* The least element of a non-empty set of numbers.
Least(S) == CHOOSE i \in S : \A j \in S : i <= j

\* String.prototype.replace(pattern: string, replacement: string): the first
\* occurrence only.  The replacement strings of this program hold no "$".
ReplaceFirst(s, sub, rep) ==
    IF ~Includes(s, sub) THEN s
    ELSE LET i == Least(Occurrences(s, sub))
         IN  SubSeq(s, 1, i - 1) \o rep \o SubSeq(s, i + Len(sub), Len(s))

\* One character of a regular expression built from a string by `new RegExp(str)`:
\* "." matches any character but a line terminator, every other character of the
\* model's alphabet (letters, digits, "/", ":", " ", ",") matches itself.
RegexCharMatches(pc_, c) == pc_ = "." \/ pc_ = c

\* String.prototype.match(pattern: string) !== null: the string is compiled to
\* a regular expression and searched for anywhere in s.
RegexMatch(s, pat) ==
    \E i \in 1..(Len(s) + 1) :
        /\ i + Len(pat) - 1 <= Len(s)
        /\ \A k \in 1..Len(pat) : RegexCharMatches(pat[k], s[i + k - 1])

\* String.prototype.split(sep) for a one-character separator.
RECURSIVE Split(_, _)
Split(s, sep) ==
    IF \A i \in 1..Len(s) : s[i] # sep THEN <<s>>
    ELSE LET i == Least({k \in 1..Len(s) : s[k] = sep})
         IN  <<SubSeq(s, 1, i - 1)>> \o Split(SubSeq(s, i + 1, Len(s)), sep)

\* String.prototype.trim (the only white space of the alphabet is " ").
RECURSIVE Trim(_)
Trim(s) ==
    IF s # <<>> /\ Head(s) = " " THEN Trim(Tail(s))
    ELSE IF s # <<>> /\ s[Len(s)] = " " THEN Trim(SubSeq(s, 1, Len(s) - 1))
    ELSE s

\* Array.prototype.join(sep)
RECURSIVE JoinWith(_, _)
JoinWith(parts, sep) ==
    IF parts = <<>> THEN <<>>
    ELSE IF Len(parts) = 1 THEN parts[1]
    ELSE parts[1] \o sep \o JoinWith(Tail(parts), sep)

\* Array.prototype.flat
RECURSIVE Flat(_)
Flat(seqs) == IF seqs = <<>> THEN <<>> ELSE Head(seqs) \o Flat(Tail(seqs))

\* [...new Set(xs)]: the first occurrence of each element, in order.
RECURSIVE Dedup(_)
Dedup(xs) ==
    IF xs = <<>> THEN <<>>
    ELSE LET init == Dedup(SubSeq(xs, 1, Len(xs) - 1))
             x == xs[Len(xs)]
         IN  IF \E i \in 1..Len(init) : init[i] = x THEN init ELSE Append(init, x)

\* The elements of a sequence.
Range(xs) == {xs[i] : i \in 1..Len(xs)}

\* `${n}` for a non-negative integer n.
Digit(d) == <<"0", "1", "2", "3", "4", "5", "6", "7", "8", "9">>[d + 1]
RECURSIVE ToDecimal(_)
ToDecimal(n) == IF n < 10 THEN <<Digit(n)>> ELSE Append(ToDecimal(n \div 10), Digit(n % 10))

\* \w of a regular expression: [A-Za-z0-9_].
WordChars ==
    {"a", "b", "c", "d", "e", "f", "g", "h", "i", "j", "k", "l", "m", "n", "o", "p", "q",
     "r", "s", "t", "u", "v", "w", "x", "y", "z",
     "A", "B", "C", "D", "E", "F", "G", "H", "I", "J", "K", "L", "M", "N", "O", "P", "Q",
     "R", "S", "T", "U", "V", "W", "X", "Y", "Z",
     "0", "1", "2", "3", "4", "5", "6", "7", "8", "9", "_"}

(***************************************************************************)
(* std/path (posix), re-exported by deps.ts.                               *)
(***************************************************************************)
\* normalizeString: "" and "." segments are dropped, ".." removes the segment
\* before it (and is kept at the start of a relative path).
RECURSIVE ResolveSegments(_, _, _)
ResolveSegments(segs, acc, allowAboveRoot) ==
    IF segs = <<>> THEN acc
    ELSE LET seg == Head(segs)
             rest == Tail(segs)
         IN  IF seg = <<>> \/ seg = <<".">> THEN ResolveSegments(rest, acc, allowAboveRoot)
             ELSE IF seg = <<".", ".">>
                  THEN IF acc # <<>> /\ acc[Len(acc)] # <<".", ".">>
                       THEN ResolveSegments(rest, SubSeq(acc, 1, Len(acc) - 1), allowAboveRoot)
                       ELSE IF allowAboveRoot
                            THEN ResolveSegments(rest, Append(acc, seg), allowAboveRoot)
                            ELSE ResolveSegments(rest, acc, allowAboveRoot)
                  ELSE ResolveSegments(rest, Append(acc, seg), allowAboveRoot)

\* posix normalize
normalize(p) ==
    IF p = <<>> THEN <<".">>
    ELSE LET isAbsolute == p[1] = "/"
             trailingSeparator == p[Len(p)] = "/"
             body == JoinWith(ResolveSegments(Split(p, "/"), <<>>, ~isAbsolute), <<"/">>)
             body2 == IF body = <<>> /\ ~isAbsolute THEN <<".">> ELSE body
             body3 == IF body2 # <<>> /\ trailingSeparator THEN body2 \o <<"/">> ELSE body2
         IN  IF isAbsolute THEN <<"/">> \o body3 ELSE body3

\* posix join of two paths: the non-empty arguments joined by "/", normalized.
posixPathJoin(a, b) ==
    LET parts == SelectSeq(<<a, b>>, LAMBDA x : x # <<>>)
    IN  IF parts = <<>> THEN <<".">> ELSE normalize(JoinWith(parts, <<"/">>))

\* join of std/path on a posix host.
join(a, b) == posixPathJoin(a, b)

\* The path without its trailing separators (the root keeps one).
RECURSIVE StripTrailingSeparators(_)
StripTrailingSeparators(p) ==
    IF Len(p) > 1 /\ p[Len(p)] = "/" THEN StripTrailingSeparators(SubSeq(p, 1, Len(p) - 1))
    ELSE p

\* posix basename
basename(p) ==
    LET q == StripTrailingSeparators(p)
        segs == Split(q, "/")
    IN  IF q = <<"/">> THEN q ELSE segs[Len(segs)]

\* posix dirname
dirname(p) ==
    LET q == StripTrailingSeparators(p)
        slashes == {i \in 1..Len(q) : q[i] = "/"}
        last == CHOOSE i \in slashes : \A j \in slashes : j <= i
    IN  IF p = <<>> \/ slashes = {} THEN <<".">>
        ELSE IF last = 1 THEN <<"/">>
        ELSE StripTrailingSeparators(SubSeq(q, 1, last - 1))

(***************************************************************************)
(* util.ts                                                                 *)
(***************************************************************************)
S_http == <<"h", "t", "t", "p", ":", "/", "/">>
S_https == <<"h", "t", "t", "p", "s", ":", "/", "/">>
S_file == <<"f", "i", "l", "e", ":">>

\* isLocalUrl
isLocalUrl(url) == ~(StartsWith(url, S_http) \/ StartsWith(url, S_https))

\* The bytes of a file content: the content with data id d is the one byte 64 + d.
DataIds == {1, 2}
DataBytes(d) == <<64 + d>>

\* The bytes of a buffer: those of its parts, one after the other.
BytesOf(data) == Flat([i \in 1..Len(data.parts) |-> DataBytes(data.parts[i])])

(***************************************************************************)
(* crypto.subtle.digest("MD5", ...): the MD5 message digest.  A 32-bit     *)
(* word is a pair <<high 16 bits, low 16 bits>>.                           *)
(***************************************************************************)
\* The element of a one-element set.  An operator below that uses an
\* argument more than once takes it through a one-element set, so that the
\* argument is a value where it is used.
The(S) == CHOOSE r \in S : TRUE

RECURSIVE And16(_, _)
And16(a, b) == IF a = 0 \/ b = 0 THEN 0 ELSE ((a % 2) * (b % 2)) + (2 * And16(a \div 2, b \div 2))
Or16(a, b) == a + b - And16(a, b)
Xor16(a, b) == a + b - (2 * And16(a, b))
Not16(a) == 65535 - a

WordAnd(x, y) == The({<<And16(u[1], v[1]), And16(u[2], v[2])>> : u \in {x}, v \in {y}})
WordOr(x, y) == The({<<Or16(u[1], v[1]), Or16(u[2], v[2])>> : u \in {x}, v \in {y}})
WordXor(x, y) == The({<<Xor16(u[1], v[1]), Xor16(u[2], v[2])>> : u \in {x}, v \in {y}})
WordNot(x) == The({<<Not16(u[1]), Not16(u[2])>> : u \in {x}})

\* Addition modulo 2^32.
WordAdd(x, y) ==
    The({<<(u[1] + v[1] + ((u[2] + v[2]) \div 65536)) % 65536, (u[2] + v[2]) % 65536>> :
            u \in {x}, v \in {y}})

Pow2(n) == <<1, 2, 4, 8, 16, 32, 64, 128, 256, 512, 1024, 2048, 4096, 8192, 16384, 32768, 65536>>[n + 1]

\* Rotation to the left by s bits, 0 < s < 32.
WordRotl(x, s) ==
    The({ IF s % 16 = 0 THEN y
          ELSE <<((y[1] * Pow2(s % 16)) % 65536) + (y[2] \div Pow2(16 - (s % 16))),
                 ((y[2] * Pow2(s % 16)) % 65536) + (y[1] \div Pow2(16 - (s % 16)))>> :
          y \in {IF s >= 16 THEN <<x[2], x[1]>> ELSE x} })

\* The sine-derived constants floor(2^32 * abs(sin(i + 1))) of the 64 steps.
Md5K ==
    <<
      <<55146, 42104>>, <<59591, 46934>>, <<9248, 28891>>, <<49597, 52974>>,
      <<62844, 4015>>, <<18311, 50730>>, <<43056, 17939>>, <<64838, 38145>>,
      <<27008, 39128>>, <<35652, 63407>>, <<65535, 23473>>, <<35164, 55230>>,
      <<27536, 4386>>, <<64920, 29075>>, <<42617, 17294>>, <<18868, 2081>>,
      <<63006, 9570>>, <<49216, 45888>>, <<9822, 23121>>, <<59830, 51114>>,
      <<54831, 4189>>, <<580, 5203>>, <<55457, 59009>>, <<59347, 64456>>,
      <<8673, 52710>>, <<49975, 2006>>, <<62677, 3463>>, <<17754, 5357>>,
      <<43491, 59653>>, <<64751, 41976>>, <<26479, 729>>, <<36138, 19594>>,
      <<65530, 14658>>, <<34673, 63105>>, <<28061, 24866>>, <<64997, 14348>>,
      <<42174, 59972>>, <<19422, 53161>>, <<63163, 19296>>, <<48831, 48240>>,
      <<10395, 32454>>, <<60065, 10234>>, <<54511, 12421>>, <<1160, 7429>>,
      <<55764, 53305>>, <<59099, 39397>>, <<8098, 31992>>, <<50348, 22117>>,
      <<62505, 8772>>, <<17194, 65431>>, <<43924, 9127>>, <<64659, 41017>>,
      <<25947, 22979>>, <<36620, 52370>>, <<65519, 62589>>, <<34180, 24017>>,
      <<28584, 32335>>, <<65068, 59104>>, <<41729, 17172>>, <<19976, 4513>>,
      <<63315, 32386>>, <<48442, 62005>>, <<10967, 53947>>, <<60294, 54161>>
    >>

\* The shift of each step.
Md5S ==
    <<
      7, 12, 17, 22, 7, 12, 17, 22, 7, 12, 17, 22, 7, 12, 17, 22,
      5, 9, 14, 20, 5, 9, 14, 20, 5, 9, 14, 20, 5, 9, 14, 20,
      4, 11, 16, 23, 4, 11, 16, 23, 4, 11, 16, 23, 4, 11, 16, 23,
      6, 10, 15, 21, 6, 10, 15, 21, 6, 10, 15, 21, 6, 10, 15, 21
    >>

\* The message padded to a multiple of 64 bytes: a 1 bit, zeros, and the
\* length in bits as a 64-bit little-endian number (messages are shorter
\* than 2^24 bytes).
Md5Pad(m) ==
    m \o <<128>> \o [i \in 1..((119 - Len(m)) % 64) |-> 0]
      \o <<(8 * Len(m)) % 256, ((8 * Len(m)) \div 256) % 256, ((8 * Len(m)) \div 65536) % 256, 0>>
      \o <<0, 0, 0, 0>>

\* Word g (0..15) of block b (from 0) of the padded message, little-endian.
Md5Word(p, b, g) ==
    The({<<p[o + 3] + (256 * p[o + 4]), p[o + 1] + (256 * p[o + 2])>> : o \in {(64 * b) + (4 * g)}})

\* Step i (0..63) on the state st = <<A, B, C, D>> for block b of p.
Md5Step(i, st, p, b) ==
    LET A == st[1]
        B == st[2]
        C == st[3]
        D == st[4]
        F == IF i < 16 THEN WordOr(WordAnd(B, C), WordAnd(WordNot(B), D))
             ELSE IF i < 32 THEN WordOr(WordAnd(D, B), WordAnd(WordNot(D), C))
             ELSE IF i < 48 THEN WordXor(B, WordXor(C, D))
             ELSE WordXor(C, WordOr(B, WordNot(D)))
        g == IF i < 16 THEN i
             ELSE IF i < 32 THEN ((5 * i) + 1) % 16
             ELSE IF i < 48 THEN ((3 * i) + 5) % 16
             ELSE (7 * i) % 16
        sum == WordAdd(WordAdd(F, A), WordAdd(Md5K[i + 1], Md5Word(p, b, g)))
    IN  <<D, WordAdd(B, WordRotl(sum, Md5S[i + 1])), B, C>>

\* The n steps i..(i + n - 1) on the state st for block b of p: the first
\* half of them, then the second half on the state the first half gave.
RECURSIVE Md5Steps(_, _, _, _, _)
Md5Steps(i, n, st, p, b) ==
    IF n = 1 THEN Md5Step(i, st, p, b)
    ELSE The({Md5Steps(i + (n \div 2), n - (n \div 2), mid, p, b) : mid \in {Md5Steps(i, n \div 2, st, p, b)}})

\* The blocks b.. of the padded message p folded into the state st.
RECURSIVE Md5Blocks(_, _, _)
Md5Blocks(p, b, st) ==
    IF 64 * b >= Len(p) THEN st
    ELSE The({Md5Blocks(q, c + 1, <<WordAdd(s[1], r[1]), WordAdd(s[2], r[2]),
                                    WordAdd(s[3], r[3]), WordAdd(s[4], r[4])>>) :
                 q \in {p}, c \in {b}, s \in {st}, r \in {Md5Steps(0, 64, st, p, b)}})

HexDigit(n) == <<"0", "1", "2", "3", "4", "5", "6", "7", "8", "9", "a", "b", "c", "d", "e", "f">>[n + 1]

\* toHashString(hash): two lower-case hexadecimal digits for each byte.
toHashString(bytes) == Flat([i \in 1..Len(bytes) |-> <<HexDigit(bytes[i] \div 16), HexDigit(bytes[i] % 16)>>])

\* The four bytes of a word, little-endian.
WordBytes(x) == The({<<u[2] % 256, u[2] \div 256, u[1] % 256, u[1] \div 256>> : u \in {x}})

\* The 16 bytes of the MD5 digest of the message m.
Md5Digest(m) ==
    The({WordBytes(st[1]) \o WordBytes(st[2]) \o WordBytes(st[3]) \o WordBytes(st[4]) :
            st \in {The({Md5Blocks(p, 0, <<<<26437, 8961>>, <<61389, 43913>>, <<39098, 56574>>, <<4146, 21622>>>>) :
                             p \in {Md5Pad(m)}})}})

\* The buffers md5 is called on: file contents are
\* [kind |-> "raw", parts |-> <<id>>], the bundler's output is
\* [kind |-> "bundle", parts |-> the ids of the bundled modules].
HashedData ==
    {[kind |-> "raw", parts |-> <<d>>] : d \in DataIds}
        \cup {[kind |-> "bundle", parts |-> s] : s \in UNION {[1..n -> DataIds] : n \in 1..2}}

\* String(bytes) for a Uint8Array: the decimal numbers of the bytes, joined by ",".
Uint8ArrayToString(bytes) == JoinWith([i \in 1..Len(bytes) |-> ToDecimal(bytes[i])], <<",">>)

\* new TextEncoder().encode(s) for a text of decimal digits and commas.
CharCode(c) == IF c = "," THEN 44 ELSE 48 + (CHOOSE d \in 0..9 : Digit(d) = c)
TextEncode(s) == [i \in 1..Len(s) |-> CharCode(s[i])]

\* The bytes md5 hands to the digest.  `data instanceof ArrayBuffer` is false
\* for the Uint8Array Deno.readFile returns, so a file content takes the
\* string branch: it is converted to the text String(data) and the UTF-8
\* bytes of that text are hashed.  The bundler's output is of a type md5
\* declares (string | ArrayBuffer): its own bytes are hashed.
Md5Input(data) ==
    IF data.kind = "bundle" THEN BytesOf(data)
    ELSE TextEncode(Uint8ArrayToString(BytesOf(data)))

\* The digest of each of them, as a 32-character hexadecimal string.
Md5Table == [data \in HashedData |-> toHashString(Md5Digest(Md5Input(data)))]

\* md5(data): the hexadecimal MD5 digest md5 returns for the data.
md5(data) == Md5Table[data]

\* fromFileUrl of std/path: the path of a file: URL with an empty host.  The
\* specifiers of the model hold no percent-encoded character.
fromFileUrl(url) == SubSeq(url, Len(<<"f", "i", "l", "e", ":", "/", "/">>) + 1, Len(url))

(***************************************************************************)
(* The environment: the files of the site, and what the external tools     *)
(* (`deno info`, the bundler, the Sass compiler) answer.  The working      *)
(* directory is /w; the entrypoint lies in it.                             *)
(***************************************************************************)
F_m_js == <<"m", ".", "j", "s">>
F_n_js == <<"n", ".", "j", "s">>
F_a_css == <<"a", ".", "c", "s", "s">>
F_s_scss == <<"s", ".", "s", "c", "s", "s">>
F_t_scss == <<"t", ".", "s", "c", "s", "s">>     \* on disk, but not valid scss
F_a_png == <<"a", ".", "p", "n", "g">>
F_A_PNG == <<"A", ".", "P", "N", "G">>
F_b_png == <<"b", ".", "p", "n", "g">>
F_xa_png == <<"x", "a", ".", "p", "n", "g">>
F_logo == <<"l", "o", "g", "o">>
F_z_css == <<"z", ".", "c", "s", "s">>       \* referenced by some documents, but not on disk
F_z_js == <<"z", ".", "j", "s">>             \* referenced by some documents, but not on disk

\* The files on disk besides the entrypoint.
DataPaths == {F_m_js, F_n_js, F_a_css, F_s_scss, F_t_scss, F_a_png, F_A_PNG, F_b_png, F_xa_png, F_logo}

\* Their first contents: data ids; a.png, A.PNG and b.png have the same bytes
\* (the byte 65), for which md5 returns a digest that ends in "b", so that the
\* artifact name of each of them ends in "b.png" or "b.PNG"; t.scss holds a
\* text that is not valid scss.
InitData == [p \in DataPaths |-> IF p \in {F_xa_png, F_t_scss} THEN 2 ELSE 1]

\* Deno.readFile(p) succeeds
CanRead(p) == p \in DOMAIN fs.data

\* No bytes: no ScssAsset.createFileObject call is in progress.
NoData == [kind |-> "none", parts |-> <<>>]

\* Deno.readFile(p): the bytes of the file
readFile(p) == [kind |-> "raw", parts |-> <<fs.data[p]>>]

\* toFileUrl for a path relative to the working directory
FileUrl(p) == <<"f", "i", "l", "e", ":", "/", "/", "/", "w", "/">> \o p

\* The modules `deno info --json p` lists: p itself and its dependency
\* closure.  m.js imports the local n.js and a remote module.
DenoInfoModules(p) ==
    <<FileUrl(p)>> \o (IF p = F_m_js THEN <<FileUrl(F_n_js), <<"h", "t", "t", "p", "s", ":", "/", "/", "r", "/", "x", ".", "j", "s">>>> ELSE <<>>)

\* The exit codes `deno info` may end with: 0 for a file on disk; for a
\* missing file the tool either fails or reports the module with an error entry.
DenoInfoCodes(p) == IF CanRead(p) THEN {0} ELSE {0, 1}

\* getDependencies when the command ends with code 0: the specifiers of the modules
getDependencies(p) == DenoInfoModules(p)

\* getLocalDependencies without its filter: remote specifiers stay in.
getLocalDependencies_NoFilter(p) == getDependencies(p)

\* getLocalDependencies
getLocalDependencies(p) == SelectSeq(getDependencies(p), LAMBDA s : StartsWith(s, S_file))

\* getLocalDependencyPaths
getLocalDependencyPaths(p) ==
    LET deps == getLocalDependencies(p)
    IN  [i \in 1..Len(deps) |-> fromFileUrl(deps[i])]

\* The local modules the bundle of p is made of.
BundleInputs(p) == <<p>> \o (IF p = F_m_js THEN <<F_n_js>> ELSE <<>>)

\* bundleByEsbuild(p) succeeds: every local module of the closure is readable
CanBundle(p) == \A q \in Range(BundleInputs(p)) : CanRead(q)

\* bundleByEsbuild(p): one buffer made of the modules of the closure
bundleByEsbuild(p) ==
    LET ins == BundleInputs(p)
    IN  [kind |-> "bundle", parts |-> [i \in 1..Len(ins) |-> fs.data[ins[i]]]]

\* compileSass(decoder.decode(scss)) resolves: the source is valid scss.
\* Data id 2 in a stylesheet source stands for a text the compiler rejects.
CanCompile(source) == source.parts # <<2>>

\* compileSass(decoder.decode(scss)): the compiled css of the source
compileSass(source) == [kind |-> "css", parts |-> source.parts]

(***************************************************************************)
(* The document: the sequence of the element children of body, in document *)
(* order.                                                                  *)
(***************************************************************************)
\* Element.getAttribute(a) !== null
HasAttr(el, a) == a \in DOMAIN el.attrs

\* !el.getAttribute(a): the attribute is missing or empty
Falsy(el, a) == ~HasAttr(el, a) \/ el.attrs[a] = <<>>

\* Element.setAttribute(a, v)
setAttribute(el, a, v) ==
    [el EXCEPT !.attrs = [x \in (DOMAIN el.attrs) \cup {a} |-> IF x = a THEN v ELSE el.attrs[x]]]

\* qs(doc, tag): the positions of the elements with that tag, in document order
qs(d, tag) == SelectSeq([i \in 1..Len(d) |-> i], LAMBDA i : d[i].tag = tag)

(***************************************************************************)
(* File objects.                                                           *)
(***************************************************************************)
\* The ASCII upper-case letters and their lower-case counterparts.
UpperAlpha ==
    <<"A", "B", "C", "D", "E", "F", "G", "H", "I", "J", "K", "L", "M", "N", "O", "P", "Q",
      "R", "S", "T", "U", "V", "W", "X", "Y", "Z">>

LowerAlpha ==
    <<"a", "b", "c", "d", "e", "f", "g", "h", "i", "j", "k", "l", "m", "n", "o", "p", "q",
      "r", "s", "t", "u", "v", "w", "x", "y", "z">>

\* ASCII lower-casing of a string, as the File constructor applies it to the type option.
AsciiLowerCase(s) ==
    [i \in 1..Len(s) |->
        IF \E k \in 1..Len(UpperAlpha) : UpperAlpha[k] = s[i]
        THEN LowerAlpha[CHOOSE k \in 1..Len(UpperAlpha) : UpperAlpha[k] = s[i]]
        ELSE s[i]]

\* new File([bytes], name, options) at time now: lastModified and type are
\* read from the options, and default to Date.now() and ""; the type is
\* stored in ASCII lower case, the name as given.
NewFile(bytes, name, options, now) ==
    [name |-> name,
     bytes |-> bytes,
     type |-> IF "type" \in DOMAIN options THEN AsciiLowerCase(options.type) ELSE <<>>,
     lastModified |-> IF "lastModified" \in DOMAIN options THEN options.lastModified ELSE now]

\* { ...file }: the own enumerable properties of a File.  name, type and
\* lastModified are accessors of the prototypes, so none of them is copied.
SpreadFile(file) == <<>>

(***************************************************************************)
(* HtmlAsset                                                               *)
(***************************************************************************)
docType == <<"<", "!", "D", "O", "C", "T", "Y", "P", "E", " ", "h", "t", "m", "l", ">">>

\* this.#filename.replace(/\.html$/, "")
StripHtmlSuffix(filename) ==
    IF EndsWith(filename, <<".", "h", "t", "m", "l">>) THEN SubSeq(filename, 1, Len(filename) - 5) ELSE filename

\* The fields the HtmlAsset constructor computes from the path.
HtmlAsset_fields(p) ==
    [base |-> dirname(p), filename |-> basename(p), pageName |-> StripHtmlSuffix(basename(p))]

\* The HtmlAsset constructor returns (it throws on a filename that does not
\* end in .html, and on an empty page name).
HtmlAsset_valid(p) ==
    /\ EndsWith(HtmlAsset_fields(p).filename, <<".", "h", "t", "m", "l">>)
    /\ HtmlAsset_fields(p).pageName # <<>>

\* `http://localhost:${opts.livereloadPort!}/livereload.js`
LivereloadUrl(port) == <<"h", "t", "t", "p", ":", "/", "/", "l", "o", "c", "a", "l", "h", "o", "s", "t", ":">> \o ToDecimal(port) \o <<"/", "l", "i", "v", "e", "r", "e", "l", "o", "a", "d", ".", "j", "s">>

\* HtmlAsset.insertScriptTag with the script made the first child of body.
insertScriptTag_First(d, url) == <<[tag |-> "script", attrs |-> [src |-> url]]>> \o d

\* HtmlAsset.insertScriptTag: a new script element becomes the last child of body
insertScriptTag(d, url) == Append(d, [tag |-> "script", attrs |-> [src |-> url]])

\* HtmlAsset.createFileObject: the doctype and the serialized document
HtmlAsset_file(d, filename) ==
    NewFile([kind |-> "html", parts |-> <<docType, d>>], filename,
            [lastModified |-> 0, type |-> <<"t", "e", "x", "t", "/", "h", "t", "m", "l">>], 0)

(***************************************************************************)
(* CssAsset, ScssAsset                                                     *)
(***************************************************************************)
\* CssAsset.create without the test of rel.
CssAsset_create_AnyRel(d, i) ==
    LET link == d[i]
    IN  IF Falsy(link, "href") THEN <<>>
        ELSE IF StartsWith(link.attrs["href"], S_https) \/ StartsWith(link.attrs["href"], S_http)
             THEN <<>>
        ELSE IF EndsWith(link.attrs["href"], <<".", "s", "c", "s", "s">>)
             THEN <<[kind |-> "scss", el |-> i, href |-> link.attrs["href"]]>>
        ELSE <<[kind |-> "css", el |-> i, href |-> link.attrs["href"]]>>

\* CssAsset.create(link), link being the element at position i: a sequence
\* holding the asset, empty for null.
CssAsset_create(d, i) ==
    LET link == d[i]
    IN  IF ~HasAttr(link, "rel") \/ link.attrs["rel"] # <<"s", "t", "y", "l", "e", "s", "h", "e", "e", "t">> THEN <<>>
        ELSE IF Falsy(link, "href") THEN <<>>
        ELSE IF StartsWith(link.attrs["href"], S_https) \/ StartsWith(link.attrs["href"], S_http)
             THEN <<>>
        ELSE IF EndsWith(link.attrs["href"], <<".", "s", "c", "s", "s">>)
             THEN <<[kind |-> "scss", el |-> i, href |-> link.attrs["href"]]>>
        ELSE <<[kind |-> "css", el |-> i, href |-> link.attrs["href"]]>>

\* CssAsset.getWatchPaths (inherited by ScssAsset)
CssAsset_getWatchPaths(a, base) == <<join(base, a.href)>>

\* `${pageName}.${hashed}.css`
CssDest(pageName, hashed) == pageName \o <<".">> \o hashed \o <<".", "c", "s", "s">>

\* CssAsset.createFileObject on readable data: the element rewritten, the file
CssAsset_produce(a, el, data, pageName, pathPrefix) ==
    LET dest == CssDest(pageName, md5(data))
    IN  [el |-> setAttribute(el, "href", posixPathJoin(pathPrefix, dest)),
         dest |-> dest,
         file |-> NewFile(data, dest, [lastModified |-> 0, type |-> <<"t", "e", "x", "t", "/", "c", "s", "s">>], 0)]

\* ScssAsset.createFileObject on readable data, up to the rewrite of the
\* href: the artifact name and the rewritten element.
ScssAsset_rewrite(a, el, source, pageName, pathPrefix) ==
    LET dest == CssDest(pageName, md5(source))
    IN  [el |-> setAttribute(el, "href", posixPathJoin(pathPrefix, dest)),
         dest |-> dest]

\* The File ScssAsset.createFileObject returns once compileSass has resolved.
ScssAsset_file(source, dest) ==
    NewFile(compileSass(source), dest, [lastModified |-> 0, type |-> <<"t", "e", "x", "t", "/", "c", "s", "s">>], 0)

(***************************************************************************)
(* ScriptAsset                                                             *)
(***************************************************************************)
\* ScriptAsset.create(script), script being the element at position i
ScriptAsset_create(d, i) ==
    LET script == d[i]
    IN  IF Falsy(script, "src") THEN <<>>
        ELSE IF StartsWith(script.attrs["src"], S_http) \/ StartsWith(script.attrs["src"], S_https)
             THEN <<>>
        ELSE <<[kind |-> "script", el |-> i, src |-> script.attrs["src"]]>>

\* The `deno info` queries of ScriptAsset.getWatchPaths
ScriptAsset_queries(a, base) == <<join(base, a.src)>>

\* ScriptAsset.getWatchPaths
ScriptAsset_getWatchPaths(a, base) == getLocalDependencyPaths(join(base, a.src))

\* ScriptAsset.createFileObject on the bundler's output
ScriptAsset_produce(a, el, data, pageName, pathPrefix) ==
    LET dest == pageName \o <<".">> \o md5(data) \o <<".", "j", "s">>
    IN  [el |-> setAttribute(el, "src", posixPathJoin(pathPrefix, dest)),
         dest |-> dest,
         file |-> NewFile(data, dest, [lastModified |-> 0, type |-> <<"a", "p", "p", "l", "i", "c", "a", "t", "i", "o", "n", "/", "j", "a", "v", "a", "s", "c", "r", "i", "p", "t">>], 0)]

(***************************************************************************)
(* ImageAsset                                                              *)
(***************************************************************************)
\* The sources read from a srcset: split at ",", without the empty strings,
\* trimmed, each cut at its first " ", without the external references.
SrcsetSources(srcset) ==
    LET entries == SelectSeq(Split(srcset, ","), LAMBDA e : e # <<>>)
        trimmed == [k \in 1..Len(entries) |-> Trim(entries[k])]
        urls == [k \in 1..Len(trimmed) |-> Split(trimmed[k], " ")[1]]
    IN  SelectSeq(urls, isLocalUrl)

\* ImageAsset.create without the removal of duplicates.
ImageAsset_create_NoDedup(d, i) ==
    LET img == d[i]
        fromSrc == IF ~Falsy(img, "src") /\ isLocalUrl(img.attrs["src"])
                   THEN <<img.attrs["src"]>> ELSE <<>>
        fromSrcset == IF ~Falsy(img, "srcset") THEN SrcsetSources(img.attrs["srcset"]) ELSE <<>>
        sources == fromSrc \o fromSrcset
    IN  IF img.tag = "img" /\ Falsy(img, "src") THEN <<>>
        ELSE IF sources = <<>> THEN <<>>
        ELSE <<[kind |-> "image", el |-> i, sources |-> sources]>>

\* ImageAsset.create(img), img being the element at position i
ImageAsset_create(d, i) ==
    LET img == d[i]
        fromSrc == IF ~Falsy(img, "src") /\ isLocalUrl(img.attrs["src"])
                   THEN <<img.attrs["src"]>> ELSE <<>>
        fromSrcset == IF ~Falsy(img, "srcset") THEN SrcsetSources(img.attrs["srcset"]) ELSE <<>>
        sources == Dedup(fromSrc \o fromSrcset)
    IN  IF img.tag = "img" /\ Falsy(img, "src") THEN <<>>
        ELSE IF sources = <<>> THEN <<>>
        ELSE <<[kind |-> "image", el |-> i, sources |-> sources]>>

\* The `deno info` queries of ImageAsset.getWatchPaths
ImageAsset_queries(a, base) == [k \in 1..Len(a.sources) |-> join(base, a.sources[k])]

\* ImageAsset.getWatchPaths
ImageAsset_getWatchPaths(a, base) ==
    Flat([k \in 1..Len(a.sources) |-> getLocalDependencyPaths(join(base, a.sources[k]))])

\* `${extension}` for const [, extension] = src.match(/\.([\w]+)$/) ?? []
Extension(src) ==
    LET dots == {k \in 1..Len(src) : src[k] = "."}
        last == CHOOSE k \in dots : \A j \in dots : j <= k
    IN  IF dots # {} /\ last < Len(src) /\ \A k \in (last + 1)..Len(src) : src[k] \in WordChars
        THEN SubSeq(src, last + 1, Len(src))
        ELSE <<"u", "n", "d", "e", "f", "i", "n", "e", "d">>

\* this.#el.getAttribute("src")?.match(src)
SrcMatches(el, src) == HasAttr(el, "src") /\ RegexMatch(el.attrs["src"], src)

\* One round of the loop of ImageAsset.createFileObject, for source src read
\* as data: the element rewritten, the file pushed
ImageAsset_produce(el, src, data, pageName, pathPrefix) ==
    LET extension == Extension(src)
        dest == pageName \o <<".">> \o md5(data) \o <<".">> \o extension
        el1 == IF SrcMatches(el, src)
               THEN setAttribute(el, "src", posixPathJoin(pathPrefix, dest)) ELSE el
        el2 == IF HasAttr(el1, "srcset") /\ Includes(el1.attrs["srcset"], src)
               THEN setAttribute(el1, "srcset",
                        ReplaceFirst(el1.attrs["srcset"], src, posixPathJoin(pathPrefix, dest)))
               ELSE el1
    IN  [el |-> el2,
         dest |-> dest,
         file |-> NewFile(data, dest,
                          [lastModified |-> 0, type |-> <<"i", "m", "a", "g", "e", "/">> \o extension], 0)]

(***************************************************************************)
(* extractReferencedAssets                                                 *)
(***************************************************************************)
\* extractReferencedScripts
extractReferencedScripts(d) ==
    Flat([k \in 1..Len(qs(d, "script")) |-> ScriptAsset_create(d, qs(d, "script")[k])])

\* extractReferencedStyleSheets
extractReferencedStyleSheets(d) ==
    Flat([k \in 1..Len(qs(d, "link")) |-> CssAsset_create(d, qs(d, "link")[k])])

\* extractReferencedImages
extractReferencedImages(d) ==
    LET imgs == qs(d, "img") \o qs(d, "source")
    IN  Flat([k \in 1..Len(imgs) |-> ImageAsset_create(d, imgs[k])])

\* extractReferencedAssets with the images scanned first.
extractReferencedAssets_ImagesFirst(d) ==
    extractReferencedImages(d) \o extractReferencedScripts(d) \o extractReferencedStyleSheets(d)

\* extractReferencedAssets
extractReferencedAssets(d) ==
    extractReferencedScripts(d) \o extractReferencedStyleSheets(d) \o extractReferencedImages(d)

\* a.getWatchPaths(base) for any asset
getWatchPaths(a, base) ==
    IF a.kind = "script" THEN ScriptAsset_getWatchPaths(a, base)
    ELSE IF a.kind = "image" THEN ImageAsset_getWatchPaths(a, base)
    ELSE CssAsset_getWatchPaths(a, base)

\* The `deno info` queries a.getWatchPaths(base) makes
WatchQueries(a, base) ==
    IF a.kind = "script" THEN ScriptAsset_queries(a, base)
    ELSE IF a.kind = "image" THEN ImageAsset_queries(a, base)
    ELSE <<>>

(***************************************************************************)
(* Inputs: entrypoint documents, paths and options.                        *)
(***************************************************************************)
El(tag, attrs) == [tag |-> tag, attrs |-> attrs]

\* The elements the documents are made of.  A document of the model lists
\* some of them in this order, so that document order (source, img, link,
\* script) differs from discovery order.
Palette ==
    << El("source", [srcset |-> <<"x", "a", ".", "p", "n", "g", " ", "1", "x", ",", " ", "b", ".", "p", "n", "g", " ", "2", "x">>]),
       El("img", [src |-> F_A_PNG]),
       El("img", [src |-> F_a_png, srcset |-> <<"a", ".", "p", "n", "g", " ", "1", "x", ",", " ", "b", ".", "p", "n", "g", " ", "2", "x">>]),
       El("img", [src |-> <<"h", "t", "t", "p", ":", "/", "/", "h", "/", "a", ".", "p", "n", "g">>, srcset |-> <<"a", ".", "p", "n", "g", " ", "2", "x">>]),
       El("img", [srcset |-> <<"a", ".", "p", "n", "g", " ", "1", "x">>]),
       El("img", [src |-> <<"h", "t", "t", "p", ":", "/", "/", "h", "/", "a", ".", "p", "n", "g">>]),
       El("img", [src |-> F_logo]),
       El("img", [src |-> F_a_png, srcset |-> <<"x", "a", ".", "p", "n", "g", " ", "2", "x">>]),
       El("link", [rel |-> <<"s", "t", "y", "l", "e", "s", "h", "e", "e", "t">>, href |-> F_a_css]),
       El("link", [rel |-> <<"s", "t", "y", "l", "e", "s", "h", "e", "e", "t">>, href |-> F_s_scss]),
       El("link", [rel |-> <<"i", "c", "o", "n">>, href |-> F_a_css]),
       El("link", [rel |-> <<"s", "t", "y", "l", "e", "s", "h", "e", "e", "t">>]),
       El("link", [rel |-> <<"s", "t", "y", "l", "e", "s", "h", "e", "e", "t">>, href |-> <<"h", "t", "t", "p", "s", ":", "/", "/", "r", ".", "c", "s", "s">>]),
       El("link", [rel |-> <<"s", "t", "y", "l", "e", "s", "h", "e", "e", "t">>, href |-> F_z_css]),
       El("script", [src |-> F_m_js]),
       El("script", <<>>),
       El("script", [src |-> <<"h", "t", "t", "p", ":", "/", "/", "r", ".", "j", "s">>]),
       El("script", [src |-> F_z_js]),
       El("link", [rel |-> <<"s", "t", "y", "l", "e", "s", "h", "e", "e", "t">>, href |-> F_t_scss]) >>

\* The strictly increasing sequences of at most MaxNodes positions of the palette.
Picks ==
    {s \in UNION {[1..m -> 1..Len(Palette)] : m \in 0..MaxNodes} :
        \A j \in 1..(Len(s) - 1) : s[j] < s[j + 1]}

\* The entrypoint documents of a build.
Docs == {[k \in 1..Len(s) |-> Palette[s[k]]] : s \in Picks}

\* The versions of the entrypoint while serving.
WatchDocs ==
    { <<El("script", [src |-> F_m_js])>>,
      <<El("link", [rel |-> <<"s", "t", "y", "l", "e", "s", "h", "e", "e", "t">>, href |-> F_a_css])>>,
      <<El("img", [src |-> F_a_png]), El("link", [rel |-> <<"s", "t", "y", "l", "e", "s", "h", "e", "e", "t">>, href |-> F_a_css])>>,
      <<El("link", [rel |-> <<"s", "t", "y", "l", "e", "s", "h", "e", "e", "t">>, href |-> F_z_css])>>,
      <<El("link", [rel |-> <<"s", "t", "y", "l", "e", "s", "h", "e", "e", "t">>, href |-> F_s_scss])>> }

\* The files modified while serving, besides the entrypoint.
ChangingPaths == {F_m_js, F_n_js, F_a_css}

EntryPaths == {<<"i", ".", "h", "t", "m", "l">>, <<"i", ".", "t", "x", "t">>, <<".", "h", "t", "m", "l">>}

LivereloadPort == 34567

\* The options tried: every combination with the default publicUrl and the
\* port of the test; a publicUrl with every combination of the options that
\* act on the document or the artifacts (it plays no part in the watch paths
\* or the hook); and one with another port.
OptsSet ==
    [watchPaths : BOOLEAN, onBuild : BOOLEAN, insertLivereloadScript : BOOLEAN,
     livereloadPort : {LivereloadPort}, mainAs404 : BOOLEAN, publicUrl : {<<>>}]
        \cup [watchPaths : {FALSE}, onBuild : {FALSE}, insertLivereloadScript : BOOLEAN,
              livereloadPort : {LivereloadPort}, mainAs404 : BOOLEAN, publicUrl : {<<"/", "p">>}]
        \cup {[watchPaths |-> FALSE, onBuild |-> FALSE, insertLivereloadScript |-> TRUE,
               livereloadPort |-> 35729, mainAs404 |-> FALSE, publicUrl |-> <<>>]}

\* The delay of the setTimeout of watchAndGenAssets, in ms.
DebounceMs == 100

NoPage == [base |-> <<>>, filename |-> <<>>, pageName |-> <<>>]
NoWatcher == [open |-> FALSE, paths |-> <<>>, events |-> <<>>]
NoStep == [asset |-> 0, source |-> <<>>, before |-> El("none", <<>>), after |-> El("none", <<>>)]

\* opts of generateAssets: watchAndGenAssets forces watchPaths and
\* insertLivereloadScript on.
opts ==
    IF mode = "serve"
    THEN [callerOpts EXCEPT !.watchPaths = TRUE, !.insertLivereloadScript = TRUE]
    ELSE callerOpts

\* const pathPrefix = opts.publicUrl || "."
pathPrefix == IF opts.publicUrl = <<>> THEN <<".">> ELSE opts.publicUrl

\* The entrypoint documents tried for a mode and a path: with a path the
\* HtmlAsset constructor rejects, the content of the document plays no part.
InputDocs(m, p) ==
    IF m = "serve" THEN WatchDocs
    ELSE IF HtmlAsset_valid(p) THEN Docs
    ELSE {d \in Docs : Len(d) <= 1}

\* The options tried for a mode.  watchAndGenAssets overrides watchPaths and
\* insertLivereloadScript, and publicUrl plays no part in the watch loop:
\* serving is tried with the caller's watchPaths and insertLivereloadScript
\* unset and the default publicUrl.
InputOpts(m) ==
    IF m = "serve"
    THEN {o \in OptsSet : ~o.watchPaths /\ ~o.insertLivereloadScript /\ o.publicUrl = <<>>}
    ELSE OptsSet

Init ==
    /\ mode \in {"build", "serve"}
    /\ path \in EntryPaths
    /\ callerOpts \in InputOpts(mode)
    /\ \E d \in InputDocs(mode, path) : fs = [entry |-> d, data |-> InitData]
    /\ pc = "start"
    /\ parsed = <<>>
    /\ doc = <<>>
    /\ pageInfo = NoPage
    /\ assets = <<>>
    /\ idx = 1
    /\ srcIdx = 1
    /\ scss = NoData
    /\ files = <<>>
    /\ dests = <<>>
    /\ lastStep = NoStep
    /\ out = <<>>
    /\ watchPaths = <<>>
    /\ prevWatchPaths = <<>>
    /\ queried = <<>>
    /\ watcher = NoWatcher
    /\ timer = 0
    /\ hookCalls = 0
    /\ cycles = 0
    /\ changes = 0

(***************************************************************************)
(* generateAssets                                                          *)
(***************************************************************************)
\* generateAssets with the generator started at once, before the watch paths
\* are computed.
generateAssets_Eager ==
    /\ pc = "start"
    /\ cycles' = cycles + 1
    /\ IF HtmlAsset_valid(path)
       THEN /\ parsed' = fs.entry
            /\ pageInfo' = HtmlAsset_fields(path)
            /\ assets' = extractReferencedAssets(fs.entry)
            /\ doc' = IF opts.insertLivereloadScript
                      THEN insertScriptTag(fs.entry, LivereloadUrl(opts.livereloadPort))
                      ELSE fs.entry
            /\ pc' = "produce"
       ELSE /\ pc' = "failed"
            /\ UNCHANGED <<parsed, pageInfo, assets, doc>>
    /\ idx' = 1
    /\ srcIdx' = 1
    /\ files' = <<>>
    /\ dests' = <<>>
    /\ lastStep' = NoStep
    /\ out' = <<>>
    /\ queried' = <<>>
    /\ hookCalls' = 0
    /\ UNCHANGED <<scss, mode, path, callerOpts, fs, watchPaths, prevWatchPaths, watcher, timer, changes>>

\* generateAssets up to the creation of the generator: the entrypoint is read
\* and parsed, the assets are extracted, the livereload script is inserted.
generateAssets ==
    /\ pc = "start"
    /\ cycles' = cycles + 1
    /\ IF HtmlAsset_valid(path)
       THEN /\ parsed' = fs.entry
            /\ pageInfo' = HtmlAsset_fields(path)
            /\ assets' = extractReferencedAssets(fs.entry)
            /\ doc' = IF opts.insertLivereloadScript
                      THEN insertScriptTag(fs.entry, LivereloadUrl(opts.livereloadPort))
                      ELSE fs.entry
            /\ pc' = "watchpaths"
       ELSE /\ pc' = "failed"
            /\ UNCHANGED <<parsed, pageInfo, assets, doc>>
    /\ idx' = 1
    /\ srcIdx' = 1
    /\ files' = <<>>
    /\ dests' = <<>>
    /\ lastStep' = NoStep
    /\ out' = <<>>
    /\ queried' = <<>>
    /\ hookCalls' = 0
    /\ UNCHANGED <<scss, mode, path, callerOpts, fs, watchPaths, prevWatchPaths, watcher, timer, changes>>

\* [path, ...watchPaths] for the watch paths of the assets
WatchPathSet(p, as, base) == <<p>> \o Flat([k \in 1..Len(as) |-> getWatchPaths(as[k], base)])

\* generateAssets from the computation of the watch paths to its return; it
\* throws when a `deno info` query ends with a non-zero code.
generateAssets_return ==
    /\ pc = "watchpaths"
    /\ IF opts.watchPaths
       THEN LET queries == Flat([k \in 1..Len(assets) |-> WatchQueries(assets[k], pageInfo.base)])
            IN  /\ queried' = queries
                /\ \/ /\ watchPaths' = WatchPathSet(path, assets, pageInfo.base)
                      /\ prevWatchPaths' = watchPaths
                      /\ pc' = "produce"
                   \/ /\ \E k \in 1..Len(queries) : 1 \in DenoInfoCodes(queries[k])
                      /\ pc' = "failed"
                      /\ UNCHANGED <<watchPaths, prevWatchPaths>>
       ELSE /\ watchPaths' = <<path>>
            /\ prevWatchPaths' = watchPaths
            /\ pc' = "produce"
            /\ UNCHANGED queried
    /\ UNCHANGED <<scss, mode, path, callerOpts, fs, parsed, doc, pageInfo, assets, idx, srcIdx, files,
                   dests, lastStep, out, watcher, timer, hookCalls, cycles, changes>>

(***************************************************************************)
(* The generator of generateAssets                                         *)
(***************************************************************************)
\* The asset the generator is at.
AtAsset(kind) == pc = "produce" /\ idx <= Len(assets) /\ assets[idx].kind = kind

\* What every createFileObject leaves alone, the source a ScssAsset has read aside.
ProduceFrameButScss ==
    UNCHANGED <<mode, path, callerOpts, fs, parsed, pageInfo, assets, idx, out, watchPaths,
                prevWatchPaths, queried, watcher, timer, hookCalls, cycles, changes>>

\* What every createFileObject but ScssAsset's leaves alone.
ProduceFrame == ProduceFrameButScss /\ UNCHANGED scss

\* CssAsset.createFileObject that skips a stylesheet it cannot read instead of throwing.
CssAsset_createFileObject_Skip ==
    /\ AtAsset("css")
    /\ LET a == assets[idx]
           p == join(pageInfo.base, a.href)
       IN  IF CanRead(p)
           THEN LET r == CssAsset_produce(a, doc[a.el], readFile(p), pageInfo.pageName, pathPrefix)
                IN  /\ doc' = [doc EXCEPT ![a.el] = r.el]
                    /\ files' = <<r.file>>
                    /\ dests' = Append(dests, <<[source |-> a.href, dest |-> r.dest]>>)
                    /\ pc' = "yield"
                    /\ idx' = idx
           ELSE /\ pc' = "produce"
                /\ idx' = idx + 1
                /\ dests' = Append(dests, <<>>)
                /\ UNCHANGED <<doc, files>>
    /\ UNCHANGED <<scss, mode, path, callerOpts, fs, parsed, pageInfo, assets, srcIdx, lastStep, out,
                   watchPaths, prevWatchPaths, queried, watcher, timer, hookCalls, cycles, changes>>

\* await a.createFileObject(...) for a CssAsset
CssAsset_createFileObject ==
    /\ AtAsset("css")
    /\ LET a == assets[idx]
           p == join(pageInfo.base, a.href)
       IN  IF CanRead(p)
           THEN LET r == CssAsset_produce(a, doc[a.el], readFile(p), pageInfo.pageName, pathPrefix)
                IN  /\ doc' = [doc EXCEPT ![a.el] = r.el]
                    /\ files' = <<r.file>>
                    /\ dests' = Append(dests, <<[source |-> a.href, dest |-> r.dest]>>)
                    /\ pc' = "yield"
           ELSE /\ pc' = "failed"
                /\ UNCHANGED <<doc, files, dests>>
    /\ UNCHANGED <<srcIdx, lastStep>>
    /\ ProduceFrame

\* await a.createFileObject(...) for a ScssAsset, up to the await of
\* compileSass: the source is read and hashed, the artifact name is stored
\* in the asset and the href is rewritten; the File does not exist yet.
ScssAsset_createFileObject ==
    /\ AtAsset("scss")
    /\ LET a == assets[idx]
           p == join(pageInfo.base, a.href)
       IN  IF CanRead(p)
           THEN LET r == ScssAsset_rewrite(a, doc[a.el], readFile(p), pageInfo.pageName, pathPrefix)
                IN  /\ scss' = readFile(p)
                    /\ doc' = [doc EXCEPT ![a.el] = r.el]
                    /\ dests' = Append(dests, <<[source |-> a.href, dest |-> r.dest]>>)
                    /\ pc' = "compile"
           ELSE /\ pc' = "failed"
                /\ UNCHANGED <<scss, doc, dests>>
    /\ UNCHANGED <<files, srcIdx, lastStep>>
    /\ ProduceFrameButScss

\* ScssAsset.createFileObject resumes after compileSass: when the compiler
\* resolves, the File of the compiled css is returned under the name stored
\* before; when it rejects, createFileObject rejects and the generator
\* fails, with the href already rewritten.
ScssAsset_compileSass ==
    /\ pc = "compile"
    /\ IF CanCompile(scss)
       THEN /\ files' = <<ScssAsset_file(scss, dests[idx][1].dest)>>
            /\ pc' = "yield"
       ELSE /\ pc' = "failed"
            /\ UNCHANGED files
    /\ scss' = NoData
    /\ UNCHANGED <<doc, dests, srcIdx, lastStep>>
    /\ ProduceFrameButScss

\* await a.createFileObject(...) for a ScriptAsset
ScriptAsset_createFileObject ==
    /\ AtAsset("script")
    /\ LET a == assets[idx]
           p == join(pageInfo.base, a.src)
       IN  IF CanBundle(p)
           THEN LET r == ScriptAsset_produce(a, doc[a.el], bundleByEsbuild(p),
                                             pageInfo.pageName, pathPrefix)
                IN  /\ doc' = [doc EXCEPT ![a.el] = r.el]
                    /\ files' = <<r.file>>
                    /\ dests' = Append(dests, <<[source |-> a.src, dest |-> r.dest]>>)
                    /\ pc' = "yield"
           ELSE /\ pc' = "failed"
                /\ UNCHANGED <<doc, files, dests>>
    /\ UNCHANGED <<srcIdx, lastStep>>
    /\ ProduceFrame

\* ImageAsset.createFileObject that rewrites the source in every img and
\* source element of the document, not only in its own.
ImageAsset_createFileObject_AllNodes ==
    /\ AtAsset("image")
    /\ LET a == assets[idx]
           src == a.sources[srcIdx]
           p == join(pageInfo.base, src)
       IN  IF CanRead(p)
           THEN LET r == ImageAsset_produce(doc[a.el], src, readFile(p), pageInfo.pageName, pathPrefix)
                    pair == [source |-> src, dest |-> r.dest]
                IN  /\ doc' = [n \in DOMAIN doc |->
                                  IF doc[n].tag \in {"img", "source"}
                                  THEN ImageAsset_produce(doc[n], src, readFile(p),
                                                          pageInfo.pageName, pathPrefix).el
                                  ELSE doc[n]]
                    /\ files' = Append(files, r.file)
                    /\ dests' = IF srcIdx = 1 THEN Append(dests, <<pair>>)
                                ELSE [dests EXCEPT ![idx] = Append(@, pair)]
                    /\ lastStep' = [asset |-> idx, source |-> src, before |-> doc[a.el], after |-> r.el]
                    /\ IF srcIdx = Len(a.sources)
                       THEN srcIdx' = 1 /\ pc' = "yield"
                       ELSE srcIdx' = srcIdx + 1 /\ pc' = pc
           ELSE /\ pc' = "failed"
                /\ UNCHANGED <<doc, files, dests, lastStep, srcIdx>>
    /\ ProduceFrame

\* One round of `for (const src of this.#sources)` of ImageAsset.createFileObject,
\* which returns its files after the last one.
ImageAsset_createFileObject ==
    /\ AtAsset("image")
    /\ LET a == assets[idx]
           src == a.sources[srcIdx]
           p == join(pageInfo.base, src)
       IN  IF CanRead(p)
           THEN LET r == ImageAsset_produce(doc[a.el], src, readFile(p), pageInfo.pageName, pathPrefix)
                    pair == [source |-> src, dest |-> r.dest]
                IN  /\ doc' = [doc EXCEPT ![a.el] = r.el]
                    /\ files' = Append(files, r.file)
                    /\ dests' = IF srcIdx = 1 THEN Append(dests, <<pair>>)
                                ELSE [dests EXCEPT ![idx] = Append(@, pair)]
                    /\ lastStep' = [asset |-> idx, source |-> src, before |-> doc[a.el], after |-> r.el]
                    /\ IF srcIdx = Len(a.sources)
                       THEN srcIdx' = 1 /\ pc' = "yield"
                       ELSE srcIdx' = srcIdx + 1 /\ pc' = pc
           ELSE /\ pc' = "failed"
                /\ UNCHANGED <<doc, files, dests, lastStep, srcIdx>>
    /\ ProduceFrame

\* for (const file of files) yield file, for the files of an asset
YieldFile ==
    /\ pc = "yield"
    /\ out' = Append(out, Head(files))
    /\ files' = Tail(files)
    /\ IF Tail(files) = <<>> THEN idx' = idx + 1 /\ pc' = "produce" ELSE idx' = idx /\ pc' = pc
    /\ UNCHANGED <<scss, mode, path, callerOpts, fs, parsed, doc, pageInfo, assets, srcIdx, dests,
                   lastStep, watchPaths, prevWatchPaths, queried, watcher, timer, hookCalls,
                   cycles, changes>>

\* htmlAsset.createFileObject run without waiting for the loop over the assets.
HtmlAsset_createFileObject_Early ==
    /\ pc = "produce"
    /\ files' = <<HtmlAsset_file(doc, pageInfo.filename)>>
    /\ pc' = "yieldhtml"
    /\ UNCHANGED <<scss, mode, path, callerOpts, fs, parsed, doc, pageInfo, assets, idx, srcIdx, dests,
                   lastStep, out, watchPaths, prevWatchPaths, queried, watcher, timer, hookCalls,
                   cycles, changes>>

\* htmlAsset.createFileObject with the hook called as soon as the HTML file is made.
HtmlAsset_createFileObject_Hook ==
    /\ pc = "produce"
    /\ idx > Len(assets)
    /\ files' = <<HtmlAsset_file(doc, pageInfo.filename)>>
    /\ hookCalls' = IF opts.onBuild THEN hookCalls + 1 ELSE hookCalls
    /\ pc' = "yieldhtml"
    /\ UNCHANGED <<scss, mode, path, callerOpts, fs, parsed, doc, pageInfo, assets, idx, srcIdx, dests,
                   lastStep, out, watchPaths, prevWatchPaths, queried, watcher, timer, cycles,
                   changes>>

\* const files = await htmlAsset.createFileObject(...), after the loop over the assets
HtmlAsset_createFileObject ==
    /\ pc = "produce"
    /\ idx > Len(assets)
    /\ files' = <<HtmlAsset_file(doc, pageInfo.filename)>>
    /\ pc' = "yieldhtml"
    /\ UNCHANGED <<scss, mode, path, callerOpts, fs, parsed, doc, pageInfo, assets, idx, srcIdx, dests,
                   lastStep, out, watchPaths, prevWatchPaths, queried, watcher, timer, hookCalls,
                   cycles, changes>>

\* The fallback yielded after the HTML file whatever opts.mainAs404 is.
YieldHtml_Always404 ==
    /\ pc = "yieldhtml"
    /\ out' = Append(out, files[1])
    /\ pc' = "yield404"
    /\ UNCHANGED <<scss, mode, path, callerOpts, fs, parsed, doc, pageInfo, assets, idx, srcIdx, files,
                   dests, lastStep, watchPaths, prevWatchPaths, queried, watcher, timer,
                   hookCalls, cycles, changes>>

\* for (const file of files) yield file, for the file of the HtmlAsset
YieldHtml ==
    /\ pc = "yieldhtml"
    /\ out' = Append(out, files[1])
    /\ pc' = IF opts.mainAs404 THEN "yield404" ELSE "onbuild"
    /\ UNCHANGED <<scss, mode, path, callerOpts, fs, parsed, doc, pageInfo, assets, idx, srcIdx, files,
                   dests, lastStep, watchPaths, prevWatchPaths, queried, watcher, timer,
                   hookCalls, cycles, changes>>

\* yield new File([await files[0].arrayBuffer()], "404", { ...files[0] })
Yield404 ==
    /\ pc = "yield404"
    /\ \E now \in 1..MaxClock :
           out' = Append(out, NewFile(files[1].bytes, <<"4", "0", "4">>, SpreadFile(files[1]), now))
    /\ pc' = "onbuild"
    /\ UNCHANGED <<scss, mode, path, callerOpts, fs, parsed, doc, pageInfo, assets, idx, srcIdx, files,
                   dests, lastStep, watchPaths, prevWatchPaths, queried, watcher, timer,
                   hookCalls, cycles, changes>>

\* opts.onBuild?.(), and the generator returns
OnBuild ==
    /\ pc = "onbuild"
    /\ hookCalls' = IF opts.onBuild THEN hookCalls + 1 ELSE hookCalls
    /\ pc' = IF mode = "serve" THEN "watch" ELSE "done"
    /\ UNCHANGED <<scss, mode, path, callerOpts, fs, parsed, doc, pageInfo, assets, idx, srcIdx, files,
                   dests, lastStep, out, watchPaths, prevWatchPaths, queried, watcher, timer,
                   cycles, changes>>

(***************************************************************************)
(* watchAndGenAssets                                                       *)
(***************************************************************************)
\* The absolute path of a file named relative to the working directory.
Abs(p) == IF p # <<>> /\ p[1] = "/" THEN normalize(p) ELSE normalize(<<"/", "w", "/">> \o p)

\* Deno.watchFs given the watch paths of the cycle before.
WatchFs_Stale ==
    /\ pc = "watch"
    /\ watcher' = [open |-> TRUE,
                   paths |-> IF cycles > 1 THEN prevWatchPaths ELSE watchPaths,
                   events |-> <<>>]
    /\ pc' = "waiting"
    /\ UNCHANGED <<scss, mode, path, callerOpts, fs, parsed, doc, pageInfo, assets, idx, srcIdx, files,
                   dests, lastStep, out, watchPaths, prevWatchPaths, queried, timer, hookCalls,
                   cycles, changes>>

\* const watcher = Deno.watchFs(watchPaths)
WatchFs ==
    /\ pc = "watch"
    /\ watcher' = [open |-> TRUE, paths |-> watchPaths, events |-> <<>>]
    /\ pc' = "waiting"
    /\ UNCHANGED <<scss, mode, path, callerOpts, fs, parsed, doc, pageInfo, assets, idx, srcIdx, files,
                   dests, lastStep, out, watchPaths, prevWatchPaths, queried, timer, hookCalls,
                   cycles, changes>>

\* The subscription gets an event for a modified file when one of its paths names it.
Notify(w, p) ==
    IF w.open /\ \E k \in 1..Len(w.paths) : Abs(w.paths[k]) = Abs(p)
    THEN [w EXCEPT !.events = Append(@, Abs(p))]
    ELSE w

\* An editor or a tool modifies a file of the site while it is served.
FileChange ==
    /\ mode = "serve"
    /\ pc # "failed"
    /\ changes < MaxChanges
    /\ changes' = changes + 1
    /\ \/ \E d \in WatchDocs \ {fs.entry} :
              /\ fs' = [fs EXCEPT !.entry = d]
              /\ watcher' = Notify(watcher, path)
       \/ \E p \in ChangingPaths :
              /\ fs' = [fs EXCEPT !.data[p] = 3 - @]
              /\ watcher' = Notify(watcher, p)
    /\ UNCHANGED <<scss, mode, path, callerOpts, pc, parsed, doc, pageInfo, assets, idx, srcIdx, files,
                   dests, lastStep, out, watchPaths, prevWatchPaths, queried, timer, hookCalls,
                   cycles>>

\* The loop left at the first event with the watcher still open.
ChangeDetected_NoClose ==
    /\ pc = "waiting"
    /\ watcher.events # <<>>
    /\ watcher' = [watcher EXCEPT !.events = Tail(@)]
    /\ timer' = DebounceMs
    /\ pc' = "debounce"
    /\ UNCHANGED <<scss, mode, path, callerOpts, fs, parsed, doc, pageInfo, assets, idx, srcIdx, files,
                   dests, lastStep, out, watchPaths, prevWatchPaths, queried, hookCalls, cycles,
                   changes>>

\* for await (const e of watcher) { ...; break }: the first event ends the
\* loop, which closes the watcher; then setTimeout(resolve, 100).
ChangeDetected ==
    /\ pc = "waiting"
    /\ watcher.events # <<>>
    /\ watcher' = NoWatcher
    /\ timer' = DebounceMs
    /\ pc' = "debounce"
    /\ UNCHANGED <<scss, mode, path, callerOpts, fs, parsed, doc, pageInfo, assets, idx, srcIdx, files,
                   dests, lastStep, out, watchPaths, prevWatchPaths, queried, hookCalls, cycles,
                   changes>>

\* The timer fires, and generateAssets is called again.
DebounceElapsed ==
    /\ pc = "debounce"
    /\ timer' = 0
    /\ pc' = "start"
    /\ UNCHANGED <<scss, mode, path, callerOpts, fs, parsed, doc, pageInfo, assets, idx, srcIdx, files,
                   dests, lastStep, out, watchPaths, prevWatchPaths, queried, watcher, hookCalls,
                   cycles, changes>>

Next ==
    \/ generateAssets
    \/ generateAssets_return
    \/ CssAsset_createFileObject
    \/ ScssAsset_createFileObject
    \/ ScssAsset_compileSass
    \/ ScriptAsset_createFileObject
    \/ ImageAsset_createFileObject
    \/ YieldFile
    \/ HtmlAsset_createFileObject
    \/ YieldHtml
    \/ Yield404
    \/ OnBuild
    \/ WatchFs
    \/ FileChange
    \/ ChangeDetected
    \/ DebounceElapsed

Spec == Init /\ [][Next]_vars

(***************************************************************************)
(* Properties.                                                             *)
(***************************************************************************)
\* The artifact is the one HtmlAsset.createFileObject made.
IsHtmlArtifact(f) == f.type = <<"t", "e", "x", "t", "/", "h", "t", "m", "l">>

\* The artifact is the fallback of mainAs404.
Is404Artifact(f) == f.name = <<"4", "0", "4">>

\* createFileObject has completed for every discovered asset.
AllAssetsProduced ==
    /\ pc # "compile"
    /\ Len(dests) = Len(assets)
    /\ \A i \in 1..Len(assets) :
           Len(dests[i]) = (IF assets[i].kind = "image" THEN Len(assets[i].sources) ELSE 1)

\* generateAssets has returned in this cycle, and the cycle has not failed.
Returned ==
    pc \in {"produce", "compile", "yield", "yieldhtml", "yield404", "onbuild", "done", "watch", "waiting"}

\* The generator of this cycle has returned.
CycleComplete == pc \in {"done", "watch", "waiting"}

\* C1: the HTML artifact is serialized and yielded only after createFileObject
\* has completed for every discovered asset; nothing follows it in the cycle
\* but the '404' fallback, right after it and only when mainAs404 is set.
C1_HtmlLast ==
    /\ pc = "yieldhtml" => AllAssetsProduced
    /\ \A k \in 1..Len(out) :
           IsHtmlArtifact(out[k]) =>
               /\ AllAssetsProduced
               /\ \A j \in 1..(k - 1) : ~IsHtmlArtifact(out[j]) /\ ~Is404Artifact(out[j])
               /\ \A j \in (k + 1)..Len(out) :
                      j = k + 1 /\ Is404Artifact(out[j]) /\ opts.mainAs404

\* A cycle with two assets has yielded their artifacts, the HTML and the fallback.
C1_Witness ==
    /\ Len(assets) >= 2
    /\ Len(out) >= 4
    /\ IsHtmlArtifact(out[Len(out) - 1])
    /\ Is404Artifact(out[Len(out)])

\* The artifact name computed in this cycle for reference s of asset i.
DestOf(i, s) ==
    LET k == CHOOSE k \in 1..Len(dests[i]) : dests[i][k].source = s
    IN  dests[i][k].dest

\* An artifact of that name has been emitted in this cycle.
Emitted(name) == \E k \in 1..Len(out) : out[k].name = name

\* The URL token of an entry of a srcset.
UrlToken(entry) == Split(Trim(entry), " ")[1]

\* Attribute a of the element is the reference to the artifact made for s.
RefersTo(el, a, i, s) ==
    /\ HasAttr(el, a)
    /\ el.attrs[a] = posixPathJoin(pathPrefix, DestOf(i, s))
    /\ Emitted(DestOf(i, s))

\* Every local entry of the parsed srcset has, in the final srcset, the
\* reference to the artifact made for it in its place.
SrcsetRefersTo(before, after, i) ==
    LET old == Split(before.attrs["srcset"], ",")
        new == Split(after.attrs["srcset"], ",")
    IN  /\ Len(new) = Len(old)
        /\ \A k \in 1..Len(old) :
               (old[k] # <<>> /\ isLocalUrl(UrlToken(old[k]))) =>
                   /\ UrlToken(new[k]) = posixPathJoin(pathPrefix, DestOf(i, UrlToken(old[k])))
                   /\ Emitted(DestOf(i, UrlToken(old[k])))

\* C2: after a cycle completed, every reference of a discovered asset (href
\* of a link, src of a script, src and the local srcset entries of an img or
\* source) is exactly join(pathPrefix, n), n the name of the artifact emitted
\* in this cycle for the file referenced.
C2_ReferencesResolve ==
    CycleComplete =>
        \A i \in 1..Len(assets) :
            LET a == assets[i]
                before == parsed[a.el]
                after == doc[a.el]
            IN  IF a.kind \in {"css", "scss"} THEN RefersTo(after, "href", i, a.href)
                ELSE IF a.kind = "script" THEN RefersTo(after, "src", i, a.src)
                ELSE /\ (~Falsy(before, "src") /\ isLocalUrl(before.attrs["src"])) =>
                            RefersTo(after, "src", i, before.attrs["src"])
                     /\ ~Falsy(before, "srcset") => SrcsetRefersTo(before, after, i)

\* The part of a source after its last ".", when it has one: its file extension.
HasExtension(s, ext) == ext # <<>> /\ EndsWith(s, <<".">> \o ext) /\ \A k \in 1..Len(ext) : ext[k] # "."

\* The MD5 digest taken over the bytes themselves, in hexadecimal, for each
\* buffer of the model.
DigestOverBytes == [data \in HashedData |-> toHashString(Md5Digest(BytesOf(data)))]

\* Artifact f, made for reference s of an asset of that kind, is named
\* {pageName}.{digest}.{ext} as C3 states it, the digest being taken over the
\* bytes C3 names.
C3_Named(kind, s, f) ==
    LET P == pageInfo.pageName \o <<".">>
    IN  IF kind = "css"
        THEN f.bytes.kind = "raw" /\ f.name = P \o DigestOverBytes[f.bytes] \o <<".", "c", "s", "s">>
        ELSE IF kind = "scss"
             THEN /\ f.bytes.kind = "css"
                  /\ f.name = P \o DigestOverBytes[[kind |-> "raw", parts |-> f.bytes.parts]]
                                \o <<".", "c", "s", "s">>
        ELSE IF kind = "script"
             THEN f.bytes.kind = "bundle" /\ f.name = P \o DigestOverBytes[f.bytes] \o <<".", "j", "s">>
        ELSE /\ f.bytes.kind = "raw"
             /\ \E n \in 1..Len(s) :
                    LET ext == SubSeq(s, Len(s) - n + 1, Len(s))
                    IN  HasExtension(s, ext) /\ f.name = P \o DigestOverBytes[f.bytes] \o <<".">> \o ext

\* C3: every artifact emitted for an asset is named {pageName}.{digest}.{ext}:
\* for a stylesheet the digest over the file's bytes and css, for a
\* preprocessed stylesheet the digest over the uncompiled source and css (the
\* bytes being the compiled output), for a script the digest over the bundler
\* output and js, for an image source the digest over the file's bytes and
\* the source's own extension.
C3_ArtifactNames ==
    \A k \in 1..Len(out) :
        (~IsHtmlArtifact(out[k]) /\ ~Is404Artifact(out[k])) =>
            \E i \in 1..Len(dests) : \E j \in 1..Len(dests[i]) :
                /\ dests[i][j].dest = out[k].name
                /\ C3_Named(assets[i].kind, dests[i][j].source, out[k])

\* C4: every artifact yielded carries the timestamp 0.
C4_FixedTimestamp == \A k \in 1..Len(out) : out[k].lastModified = 0

\* The phase of the watch loop the control flow is in.
Phase ==
    IF pc \in {"start", "watchpaths"} THEN "Building"
    ELSE IF pc \in {"produce", "compile", "yield", "yieldhtml", "yield404", "onbuild", "watch"} THEN "Streaming"
    ELSE IF pc = "waiting" THEN "Waiting"
    ELSE IF pc = "debounce" THEN "Debounce"
    ELSE pc

\* C5: the watch loop goes Building -> Streaming -> Waiting -> (debounce) ->
\* Building and never returns (only a failure of a cycle ends it); a
\* subscription exists only in Waiting; leaving Waiting takes a change event
\* and drops the subscription; Building starts again only when the debounce
\* delay of DebounceMs armed at that event has elapsed.
C5_WatchLoop ==
    [][mode = "serve" =>
        /\ watcher.open => Phase = "Waiting"
        /\ watcher'.open => Phase' = "Waiting"
        /\ Phase' # Phase =>
               <<Phase, Phase'>> \in
                   { <<"Building", "Streaming">>, <<"Streaming", "Waiting">>,
                     <<"Waiting", "Debounce">>, <<"Debounce", "Building">>,
                     <<"Building", "failed">>, <<"Streaming", "failed">> }
        /\ (Phase = "Waiting" /\ Phase' = "Waiting") => watcher'.open
        /\ (Phase = "Waiting" /\ Phase' # "Waiting") =>
               watcher.events # <<>> /\ ~watcher'.open /\ timer' = DebounceMs
        /\ (Phase' = "Building" /\ Phase # "Building") =>
               Phase = "Debounce" /\ timer = DebounceMs
        /\ pc' # "done"]_vars

\* The loop waits for a change for the second time.
C5_Witness == mode = "serve" /\ cycles = 2 /\ pc = "waiting" /\ watcher.open

\* The paths an asset asks to be watched.
AssetPaths(a) == Range(getWatchPaths(a, pageInfo.base))

\* C6: in Waiting, the paths subscribed to are the watch paths the generation
\* cycle just streamed returned: the entrypoint and the paths of the assets
\* discovered in that cycle, no path of an earlier cycle's assets only.
C6_WatchCurrentSet ==
    watcher.open =>
        /\ watcher.paths = watchPaths
        /\ Range(watcher.paths) = {path} \cup UNION {AssetPaths(assets[i]) : i \in 1..Len(assets)}

\* The loop waits on a set of paths that differs from the previous cycle's in
\* both directions: a file no longer referenced, a file newly referenced.
C6_Witness ==
    /\ watcher.open
    /\ cycles >= 2
    /\ Range(prevWatchPaths) \ Range(watcher.paths) # {}
    /\ Range(watcher.paths) \ Range(prevWatchPaths) # {}

\* The paths of the modules of a list that are file: URLs, in order.
LocalModulePaths(modules) ==
    LET locals == SelectSeq(modules, LAMBDA s : SubSeq(s, 1, 5) = <<"f", "i", "l", "e", ":">>)
    IN  [k \in 1..Len(locals) |-> SubSeq(locals[k], 8, Len(locals[k]))]

\* The dependency paths C7 gives an asset.
C7_AssetPaths(a) ==
    IF a.kind = "script" THEN LocalModulePaths(DenoInfoModules(join(pageInfo.base, a.src)))
    ELSE IF a.kind = "image"
         THEN Flat([k \in 1..Len(a.sources) |->
                       LocalModulePaths(DenoInfoModules(join(pageInfo.base, a.sources[k])))])
    ELSE <<join(pageInfo.base, a.href)>>

\* The dependency queries of the assets that have one: scripts and images.
C7_Queries ==
    Flat([i \in 1..Len(assets) |->
             IF assets[i].kind = "script" THEN <<join(pageInfo.base, assets[i].src)>>
             ELSE IF assets[i].kind = "image"
                  THEN [k \in 1..Len(assets[i].sources) |-> join(pageInfo.base, assets[i].sources[k])]
             ELSE <<>>])

\* C7: with watchPaths set, generateAssets returns the entrypoint path
\* followed by the dependency paths of the assets in discovery order (for a
\* script the local modules of its closure and no remote one, for a
\* stylesheet its file); without it, it makes no dependency query and returns
\* the entrypoint path alone.
C7_WatchPathSet ==
    Returned =>
        IF opts.watchPaths
        THEN /\ watchPaths = <<path>> \o Flat([i \in 1..Len(assets) |-> C7_AssetPaths(assets[i])])
             /\ \A k \in 1..Len(watchPaths) : isLocalUrl(watchPaths[k])
             /\ queried = C7_Queries
        ELSE watchPaths = <<path>> /\ queried = <<>>

\* generateAssets returned the watch paths of a document with a script and a stylesheet.
C7_Witness ==
    /\ Returned
    /\ opts.watchPaths
    /\ \E i \in 1..Len(assets) : assets[i].kind = "script"
    /\ \E i \in 1..Len(assets) : assets[i].kind \in {"css", "scss"}
    /\ Len(watchPaths) = 4

\* The element is remote in attribute a.
RemoteAttr(el, a) ==
    HasAttr(el, a) /\ (StartsWith(el.attrs[a], S_http) \/ StartsWith(el.attrs[a], S_https))

\* The elements C8 is about.
C8_Skipped(el) ==
    \/ el.tag = "link" /\ (~HasAttr(el, "rel") \/ el.attrs["rel"] # <<"s", "t", "y", "l", "e", "s", "h", "e", "e", "t">>)
    \/ el.tag = "link" /\ (~HasAttr(el, "href") \/ RemoteAttr(el, "href"))
    \/ el.tag = "script" /\ (~HasAttr(el, "src") \/ RemoteAttr(el, "src"))

\* The documents serialized in this cycle: the HTML artifacts made or yielded.
SerializedDocs ==
    {out[k].bytes.parts[2] : k \in {j \in 1..Len(out) : IsHtmlArtifact(out[j])}}
        \cup {files[k].bytes.parts[2] : k \in {j \in 1..Len(files) : IsHtmlArtifact(files[j])}}

\* C8: a link that is no stylesheet, a stylesheet link without href or with a
\* remote href, a script without src or with a remote src is no asset, and
\* has in the document, and in the HTML made of it, the attributes it was
\* parsed with.
C8_SkippedUntouched ==
    \A n \in 1..Len(parsed) :
        C8_Skipped(parsed[n]) =>
            /\ \A i \in 1..Len(assets) : assets[i].el # n
            /\ doc[n] = parsed[n]
            /\ \A d \in SerializedDocs : d[n] = parsed[n]

\* The HTML of a document with such an element and an asset has been yielded.
C8_Witness ==
    /\ \E n \in 1..Len(parsed) : C8_Skipped(parsed[n])
    /\ assets # <<>>
    /\ \E k \in 1..Len(out) : IsHtmlArtifact(out[k])

\* The URL tokens of a srcset: the first token of each entry.
SrcsetTokens(srcset) == {UrlToken(e) : e \in {x \in Range(Split(srcset, ",")) : x # <<>>}}

\* The local sources of an element: its src and the URL tokens of its srcset
\* that are not http(s) URLs.
LocalSources(el) ==
    {u \in (IF ~Falsy(el, "src") THEN {el.attrs["src"]} ELSE {})
             \cup (IF ~Falsy(el, "srcset") THEN SrcsetTokens(el.attrs["srcset"]) ELSE {}) :
        isLocalUrl(u)}

\* The image assets discovered from the element at position n.
ImageAssetsOf(n) == {i \in 1..Len(assets) : assets[i].kind = "image" /\ assets[i].el = n}

\* The sources of the image asset of element n are its local sources, each once.
C9_Sources(n) ==
    \A i \in ImageAssetsOf(n) :
        /\ Range(assets[i].sources) = LocalSources(parsed[n])
        /\ Cardinality(Range(assets[i].sources)) = Len(assets[i].sources)

\* C9 as claimed: an img or source element yields an image asset exactly
\* when it has a local source in src or srcset.
C9_Original ==
    \A n \in 1..Len(parsed) :
        parsed[n].tag \in {"img", "source"} =>
            /\ (ImageAssetsOf(n) # {}) <=> (LocalSources(parsed[n]) # {})
            /\ C9_Sources(n)

\* C9 amended: an img or source element yields an image asset exactly when it
\* has a local source in src or srcset and is not an img without src; the
\* sources of the asset are the local sources of the element, each once.
C9_ImageDiscovery ==
    \A n \in 1..Len(parsed) :
        parsed[n].tag \in {"img", "source"} =>
            /\ (ImageAssetsOf(n) # {}) <=>
                   /\ LocalSources(parsed[n]) # {}
                   /\ ~(parsed[n].tag = "img" /\ Falsy(parsed[n], "src"))
            /\ Cardinality(ImageAssetsOf(n)) <= 1
            /\ C9_Sources(n)

\* An image asset with two sources was discovered from an element that names
\* one of them in src and in srcset; an img without src was skipped.
C9_Witness ==
    /\ \E i \in 1..Len(assets) :
           /\ assets[i].kind = "image"
           /\ Len(assets[i].sources) = 2
           /\ HasAttr(parsed[assets[i].el], "src")
           /\ HasAttr(parsed[assets[i].el], "srcset")
    /\ \E n \in 1..Len(parsed) :
           parsed[n].tag = "img" /\ Falsy(parsed[n], "src") /\ LocalSources(parsed[n]) # {}

\* The value of src, <<>> when the element has none.
SrcOf(el) == IF HasAttr(el, "src") THEN el.attrs["src"] ELSE <<>>

\* C10: while ImageAsset.createFileObject processes source s, src is
\* rewritten if and only if its value equals s.
C10_SrcRewrittenIffEqual ==
    lastStep.asset # 0 =>
        (SrcOf(lastStep.after) # SrcOf(lastStep.before)) <=>
            (HasAttr(lastStep.before, "src") /\ lastStep.before.attrs["src"] = lastStep.source)

\* The space-separated tokens of an entry of a srcset: the URL, then the descriptors.
EntryTokens(entry) == Split(Trim(entry), " ")

\* C11: while ImageAsset.createFileObject processes source s, the only part
\* of srcset that changes is the URL token equal to s: the entries stay as
\* many, every descriptor token stays as it was, and an entry whose URL token
\* is not s stays as it was.
C11_SrcsetFrame ==
    (lastStep.asset # 0 /\ HasAttr(lastStep.before, "srcset")) =>
        /\ HasAttr(lastStep.after, "srcset")
        /\ LET old == Split(lastStep.before.attrs["srcset"], ",")
               new == Split(lastStep.after.attrs["srcset"], ",")
           IN  /\ Len(new) = Len(old)
               /\ \A k \in 1..Len(old) :
                      /\ Len(EntryTokens(new[k])) = Len(EntryTokens(old[k]))
                      /\ \A j \in 2..Len(EntryTokens(old[k])) :
                             EntryTokens(new[k])[j] = EntryTokens(old[k])[j]
                      /\ EntryTokens(old[k])[1] # lastStep.source => new[k] = old[k]

\* The artifacts of this cycle named '404'.
Fallbacks == {k \in 1..Len(out) : Is404Artifact(out[k])}

\* C12: with mainAs404 set, a completed cycle has yielded exactly one
\* artifact named '404', right after the HTML artifact and with the bytes of
\* it; without it, no artifact named '404' is ever yielded.
C12_Fallback404 ==
    IF opts.mainAs404
    THEN /\ Cardinality(Fallbacks) <= 1
         /\ \A k \in Fallbacks :
                k > 1 /\ IsHtmlArtifact(out[k - 1]) /\ out[k].bytes = out[k - 1].bytes
         /\ CycleComplete =>
                /\ Cardinality(Fallbacks) = 1
                /\ Len(out) = Cardinality({k \in 1..Len(out) : ~IsHtmlArtifact(out[k]) /\ k \notin Fallbacks}) + 2
                /\ Fallbacks = {Len(out)}
    ELSE Fallbacks = {}

\* A completed cycle has yielded an asset's artifact, the HTML and the fallback.
C12_Witness ==
    /\ CycleComplete
    /\ opts.mainAs404
    /\ Len(out) >= 3
    /\ Is404Artifact(out[Len(out)])
    /\ out[Len(out)].bytes = out[Len(out) - 1].bytes

\* The livereload script element for the port of the options.
LivereloadScript ==
    El("script",
       [src |-> <<"h", "t", "t", "p", ":", "/", "/", "l", "o", "c", "a", "l", "h", "o", "s", "t", ":">>
                    \o (IF callerOpts.livereloadPort = 34567 THEN <<"3", "4", "5", "6", "7">> ELSE <<"3", "5", "7", "2", "9">>)
                    \o <<"/", "l", "i", "v", "e", "r", "e", "l", "o", "a", "d", ".", "j", "s">>])

\* C13: with insertLivereloadScript set, and always while serving, the
\* document of a cycle has as its last element a script whose src is exactly
\* http://localhost:{port}/livereload.js, after the elements parsed; that
\* element is no asset's element, it stays as inserted while the assets are
\* produced, and it is the last element of the HTML serialized.
C13_LivereloadScript ==
    ((mode = "serve" \/ callerOpts.insertLivereloadScript) /\ cycles >= 1 /\ HtmlAsset_valid(path)) =>
        /\ Len(doc) = Len(parsed) + 1
        /\ doc[Len(doc)] = LivereloadScript
        /\ \A i \in 1..Len(assets) : assets[i].el # Len(doc)
        /\ \A d \in SerializedDocs : Len(d) = Len(doc) /\ d[Len(d)] = LivereloadScript

\* While serving with insertLivereloadScript not set by the caller, the HTML
\* of a document with a script asset has been yielded with the livereload script.
C13_Witness ==
    /\ mode = "serve"
    /\ ~callerOpts.insertLivereloadScript
    /\ \E i \in 1..Len(assets) : assets[i].kind = "script"
    /\ \E k \in 1..Len(out) :
           IsHtmlArtifact(out[k]) /\ out[k].bytes.parts[2][Len(doc)] = LivereloadScript

\* No HTML artifact and no fallback is among the artifacts.
NoMainArtifact(o) == \A k \in 1..Len(o) : ~IsHtmlArtifact(o[k]) /\ ~Is404Artifact(o[k])

\* An asset of the cycle names a file that cannot be read, bundled or compiled.
BrokenAsset ==
    \E i \in 1..Len(assets) :
        LET a == assets[i]
        IN  IF a.kind = "script" THEN ~CanBundle(join(pageInfo.base, a.src))
            ELSE IF a.kind = "image"
                 THEN \E k \in 1..Len(a.sources) : ~CanRead(join(pageInfo.base, a.sources[k]))
            ELSE IF a.kind = "scss"
                 THEN \/ ~CanRead(join(pageInfo.base, a.href))
                      \/ ~CanCompile(readFile(join(pageInfo.base, a.href)))
            ELSE ~CanRead(join(pageInfo.base, a.href))

\* C14: a cycle in which a step fails (the HtmlAsset constructor, a read, the
\* bundler, a dependency query) yields neither the HTML artifact nor the
\* fallback and does not call onBuild: where one of these has happened, the
\* cycle has not failed, the entrypoint path is valid and no asset is broken.
\* After the failure no step follows: no subscription, no timer, no further
\* generateAssets call.
C14_FailureAborts ==
    /\ (~NoMainArtifact(out) \/ hookCalls > 0) =>
           /\ pc # "failed"
           /\ HtmlAsset_valid(path)
           /\ ~BrokenAsset
    /\ pc = "failed" => ~watcher.open /\ timer = 0 /\ ~ENABLED Next

\* While serving, a cycle started after a change has failed at an asset.
C14_Witness == pc = "failed" /\ mode = "serve" /\ cycles >= 2 /\ BrokenAsset

\* The generator of this cycle has produced something: a file, a rewritten
\* reference, a yielded artifact, a call of the hook.
ProductionBegun == files # <<>> \/ dests # <<>> \/ out # <<>> \/ hookCalls > 0

\* The document is as step 3 left it: the parsed elements, then the
\* livereload script when it is asked for.
AsInjected ==
    doc = IF opts.insertLivereloadScript THEN Append(parsed, LivereloadScript) ELSE parsed

\* The watch paths are those of the assets and the entrypoint of this cycle.
WatchPathsOfCycle ==
    watchPaths = IF opts.watchPaths THEN WatchPathSet(path, assets, pageInfo.base) ELSE <<path>>

\* The steps 4 to 6 are complete: every asset is produced and every artifact yielded.
AllYielded ==
    /\ AllAssetsProduced
    /\ \E k \in 1..Len(out) : IsHtmlArtifact(out[k])
    /\ opts.mainAs404 => Is404Artifact(out[Len(out)])

\* C15 as claimed: the watch paths of a cycle are computed only after the
\* artifacts of the assets, the HTML artifact and the fallback are produced,
\* and before the hook is called.
C15_Original ==
    /\ (Returned /\ cycles >= 1) => AllYielded
    /\ hookCalls > 0 => Returned

\* C15 amended: the watch paths of a cycle are computed after the discovery
\* and the livereload injection and before anything is produced; the
\* artifacts of the assets, the HTML artifact and the fallback follow, and
\* the hook is called after all of them.
C15_StepOrder ==
    /\ pc = "watchpaths" =>
           /\ ~ProductionBegun
           /\ assets = extractReferencedAssets(parsed)
           /\ AsInjected
    /\ (ProductionBegun /\ pc # "start") =>
           /\ pc # "watchpaths"
           /\ watchPaths # <<>> /\ watchPaths[1] = path
           /\ opts.watchPaths => queried = C7_Queries
    /\ (hookCalls > 0 /\ pc # "start") => AllYielded /\ WatchPathsOfCycle

\* The hook has been called in a cycle that made dependency queries and yielded
\* the artifact of an asset.
C15_Witness ==
    /\ hookCalls = 1
    /\ CycleComplete
    /\ queried # <<>>
    /\ Len(watchPaths) >= 2
    /\ Len(out) >= 2

\* The number of artifacts a complete cycle yields: one per source reference
\* of the assets, the HTML, and the fallback when it is asked for.
ArtifactCount ==
    LET n[i \in 0..Len(assets)] ==
            IF i = 0 THEN 0
            ELSE n[i - 1] + (IF assets[i].kind = "image" THEN Len(assets[i].sources) ELSE 1)
    IN  n[Len(assets)] + 1 + (IF opts.mainAs404 THEN 1 ELSE 0)

\* C16: onBuild is called at most once in a cycle, and only when every
\* artifact of the cycle (of the assets, the HTML, the fallback) has been
\* yielded; while serving, it has been called when the subscription of the
\* cycle is created.
C16_HookOnce ==
    /\ hookCalls <= 1
    /\ hookCalls = 1 =>
           /\ opts.onBuild
           /\ Len(out) = ArtifactCount
           /\ AllYielded
    /\ (opts.onBuild /\ (pc = "watch" \/ watcher.open \/ pc = "done")) => hookCalls = 1
    /\ (watcher.open /\ hookCalls = 0) => ~opts.onBuild

\* While serving, the second cycle has called the hook and waits for a change.
C16_Witness ==
    /\ mode = "serve"
    /\ cycles = 2
    /\ hookCalls = 1
    /\ watcher.open
    /\ Len(out) >= 2

\* The place of a tag in the scan of extractReferencedAssets.
TagRank(tag) == IF tag = "script" THEN 1 ELSE IF tag = "link" THEN 2 ELSE IF tag = "img" THEN 3 ELSE 4

\* The references of an asset, in the order its artifacts are made.
ReferencesOf(a) ==
    IF a.kind = "script" THEN <<a.src>> ELSE IF a.kind = "image" THEN a.sources ELSE <<a.href>>

\* The names of the artifacts made so far for the assets, asset by asset.
ProducedNames == Flat([i \in 1..Len(dests) |-> [j \in 1..Len(dests[i]) |-> dests[i][j].dest]])

\* The names of the artifacts of assets yielded so far, in the order of the yields.
YieldedNames ==
    LET fs_ == SelectSeq(out, LAMBDA f : ~IsHtmlArtifact(f) /\ ~Is404Artifact(f))
    IN  [k \in 1..Len(fs_) |-> fs_[k].name]

\* C17: the assets are listed scripts first, then links, then imgs, then
\* sources, each group in document order; their artifacts are produced and
\* yielded in that order (for an image, in the order of its sources).
C17_DiscoveryOrder ==
    /\ \A i, j \in 1..Len(assets) :
           i < j =>
               LET ti == TagRank(parsed[assets[i].el].tag)
                   tj == TagRank(parsed[assets[j].el].tag)
               IN  ti < tj \/ (ti = tj /\ assets[i].el < assets[j].el)
    /\ Len(dests) <= Len(assets)
    /\ \A i \in 1..Len(dests) :
           /\ Len(dests[i]) <= Len(ReferencesOf(assets[i]))
           /\ \A j \in 1..Len(dests[i]) : dests[i][j].source = ReferencesOf(assets[i])[j]
    /\ LET produced == ProducedNames
           yielded == YieldedNames
       IN  /\ Len(yielded) <= Len(produced)
           /\ yielded = SubSeq(produced, 1, Len(yielded))
           /\ CycleComplete => (AllAssetsProduced /\ yielded = produced)

\* A completed cycle has yielded the artifacts of two assets whose elements
\* are in the other order in the document.
C17_Witness ==
    /\ CycleComplete
    /\ Len(assets) = 2
    /\ assets[1].el > assets[2].el
    /\ Len(YieldedNames) >= 2
    /\ YieldedNames[1] # YieldedNames[2]

\* C18: the document generateAssets leaves after the discovery has the
\* elements as they were parsed; from then on an element changes only in a
\* createFileObject step of the asset discovered from it, which changes none
\* of the other elements, and no element is added, removed or changes its tag.
C18_DiscoveryFrame ==
    [][IF pc = "start"
       THEN pc' = "watchpaths" =>
                /\ Len(doc') >= Len(parsed')
                /\ SubSeq(doc', 1, Len(parsed')) = parsed'
                /\ parsed' = fs.entry
       ELSE /\ Len(doc') = Len(doc)
            /\ \A n \in 1..Len(doc) :
                   doc'[n] # doc[n] =>
                       /\ pc = "produce"
                       /\ idx <= Len(assets)
                       /\ assets[idx].el = n
                       /\ doc'[n].tag = doc[n].tag]_vars

\* The first of two image assets has rewritten its element, and the element
\* of the second is as it was parsed.
C18_Witness ==
    /\ Len(assets) = 2
    /\ assets[1].kind = "image" /\ assets[2].kind = "image"
    /\ Len(dests) = 1
    /\ doc[assets[1].el] # parsed[assets[1].el]
    /\ doc[assets[2].el] = parsed[assets[2].el]

\* The entrypoint is no longer what the running cycle parsed.
EntryModifiedAfterRead == fs.entry # parsed

\* A stylesheet the running cycle has produced is no longer what it read.
StylesheetModifiedAfterRead ==
    \E i \in 1..Len(dests) :
        /\ assets[i].kind = "css"
        /\ dests[i] # <<>>
        /\ dests[i][1].dest # CssDest(pageInfo.pageName, md5(readFile(join(pageInfo.base, assets[i].href))))

\* C19: while serving, no change of a watched file is lost.  The loop in
\* Waiting with no event pending starts a cycle only at the next change, so
\* a change made after the running cycle read the file (in whatever phase)
\* is followed by a later cycle, whatever else happens, only if the loop is
\* never in that state with such a change behind it.
C19_NoChangeLost ==
    (mode = "serve" /\ pc = "waiting" /\ watcher.open /\ watcher.events = <<>>) =>
        ~(EntryModifiedAfterRead \/ StylesheetModifiedAfterRead)

\* The entries of a srcset whose URL token is remote keep their place and their text.
RemoteEntriesKept(before, after) ==
    LET old == Split(before.attrs["srcset"], ",")
        new == Split(after.attrs["srcset"], ",")
    IN  /\ Len(new) = Len(old)
        /\ \A k \in 1..Len(old) :
               (old[k] # <<>> /\ ~isLocalUrl(UrlToken(old[k]))) => new[k] = old[k]

\* C20: an src or href that is an http(s) URL, and an http(s) entry of a
\* srcset, is in the document, and in the HTML serialized from it, what it
\* was in the parsed entrypoint, also on an element with local sources.
C20_RemoteUntouched ==
    \A d \in {SubSeq(doc, 1, Len(parsed))} \cup {SubSeq(s, 1, Len(parsed)) : s \in SerializedDocs} :
        \A n \in 1..Len(parsed) :
            /\ \A a \in {"src", "href"} :
                   RemoteAttr(parsed[n], a) => (HasAttr(d[n], a) /\ d[n].attrs[a] = parsed[n].attrs[a])
            /\ ~Falsy(parsed[n], "srcset") =>
                   (HasAttr(d[n], "srcset") /\ RemoteEntriesKept(parsed[n], d[n]))
====
